---- MODULE Spec2Model ----
(***************************************************************************)
(* Model of backend/main.py of cfssl-webui: the certificates table, the    *)
(* startup migration, and the list / create / download handlers.           *)
(*                                                                         *)
(* Conventions.  An optional value (Python None, SQL NULL, absent JSON     *)
(* key) is the empty sequence <<>>, a present value v is <<v>>.  A JSON    *)
(* value in a CA response is <<>> (absent or null), <<"str", s>>,          *)
(* <<"num", digits>> or <<"obj">> (a non-empty array or object).  The      *)
(* validity option is a sequence of characters, so lower-casing is         *)
(* computed.  Time is counted in days (a proleptic day ordinal).           *)
(***************************************************************************)
EXTENDS Integers, Sequences, FiniteSets, TLC

VARIABLES started, tableExists, hasValidityDays, certificates,
          sqlite_sequence, insertedAt, now, strictStr, pc, local, event

vars == <<started, tableExists, hasValidityDays, certificates,
          sqlite_sequence, insertedAt, now, strictStr, pc, local, event>>

(* ------------------------------ bounds -------------------------------- *)
NumWorkers == 2
MaxCreated == 1
MaxConcurrentCreated == 2
MaxCertId == 3
MaxTicks == 1
StartOrdinal == 739922

(* ------------------------- library constants -------------------------- *)
DATETIME_MAX_ORDINAL == 3652059
TIMEDELTA_MAX_DAYS == 999999999

None == <<>>
Some(v) == <<v>>

Workers == 1..NumWorkers

(* --------------------------- VALIDITY_OPTIONS_DAYS -------------------- *)
VALIDITY_OPTIONS_DAYS ==
    (<<"1", "y">> :> 365) @@
    (<<"3", "y">> :> 365 * 3) @@
    (<<"5", "y">> :> 365 * 5) @@
    (<<"1", "0", "y">> :> 365 * 10)

(* str.lower(), character by character *)
LowerChar(c) ==
    CASE c = "Y" -> "y"
      [] c = "C" -> "c"
      [] c = "U" -> "u"
      [] c = "S" -> "s"
      [] c = "T" -> "t"
      [] c = "O" -> "o"
      [] c = "M" -> "m"
      [] OTHER -> c

Lower(s) == [i \in DOMAIN s |-> LowerChar(s[i])]

CustomOption == <<"c", "u", "s", "t", "o", "m">>

(* ------------------------------ inputs -------------------------------- *)
Payload(validity_option, validity_days) ==
    [ cn |-> "a.com", sans |-> <<>>, profile |-> None,
      validity_option |-> validity_option, validity_days |-> validity_days ]

(* CertCreate request bodies (the fields the handlers read) *)
Payloads ==
    { Payload(<<"1", "y">>, None),       Payload(<<"1", "y">>, Some(0)),
      Payload(<<"3", "y">>, Some(90)),   Payload(<<"3", "y">>, Some(-1)),
      Payload(<<"5", "Y">>, None),       Payload(<<"1", "0", "y">>, Some(3000000)),
      Payload(<<>>, None),
      Payload(CustomOption, None),       Payload(CustomOption, Some(0)),
      Payload(CustomOption, Some(-1)),   Payload(CustomOption, Some(90)),
      Payload(CustomOption, Some(3000000)),
      Payload(<<"2", "y">>, None),       Payload(<<"2", "y">>, Some(90)) }

(* the requests of the concurrent runs *)
ConcurrentPayloads == { Payload(<<"1", "y">>, None), Payload(<<"2", "y">>, None) }

Passwords == { None, Some(""), Some("pw") }

(* CertCreate.validity_days: Optional[int] = Field(default=None, ge=1) *)
CertCreate(payload) ==
    \/ payload.validity_days = None
    \/ payload.validity_days[1] >= 1

(* ----------------------- resolve_validity_days ------------------------ *)
Raise(status_code, detail) ==
    [ok |-> FALSE, days |-> 0, status_code |-> status_code, detail |-> detail]

Return(days) ==
    [ok |-> TRUE, days |-> days, status_code |-> 200, detail |-> "ok"]

(* mutant: an unrecognized option falls back to the default preset *)
resolve_validity_days_lenient(payload) ==
    LET option == Lower(IF payload.validity_option = <<>>
                        THEN <<"1", "y">>
                        ELSE payload.validity_option)
    IN  IF option \in DOMAIN VALIDITY_OPTIONS_DAYS
        THEN Return(VALIDITY_OPTIONS_DAYS[option])
        ELSE IF option = CustomOption /\ payload.validity_days # None
                /\ payload.validity_days[1] > 0
        THEN Return(payload.validity_days[1])
        ELSE Return(VALIDITY_OPTIONS_DAYS[<<"1", "y">>])

resolve_validity_days(payload) ==
    LET option == Lower(IF payload.validity_option = <<>>
                        THEN <<"1", "y">>
                        ELSE payload.validity_option)
    IN  IF option \in DOMAIN VALIDITY_OPTIONS_DAYS
        THEN Return(VALIDITY_OPTIONS_DAYS[option])
        ELSE IF option = CustomOption
        THEN IF \/ payload.validity_days = None
                \/ payload.validity_days[1] = 0
                \/ payload.validity_days[1] <= 0
             THEN Raise(400, "custom_days_required")
             ELSE Return(payload.validity_days[1])
        ELSE Raise(400, "invalid_option")

(* issued_at + timedelta(days=validity_days) raises OverflowError *)
Overflows(issued_at, days) ==
    \/ days > TIMEDELTA_MAX_DAYS
    \/ issued_at + days > DATETIME_MAX_ORDINAL

(* datetime.isoformat() / datetime.fromisoformat() *)
Isoformat(d) == <<"T", d>>
FromIsoformat(t) == t[2]

(* json.dumps / json.loads of a list of strings *)
JsonDumps(list) == <<"[">> \o list \o <<"]">>
JsonLoads(text) == SubSeq(text, 2, Len(text) - 1)

(* payload.sans or [payload.cn] *)
Hosts(payload) == IF payload.sans = <<>> THEN <<payload.cn>> ELSE payload.sans

(* the request sent to the CA signer *)
cfssl_request(payload) ==
    [CN |-> payload.cn, hosts |-> Hosts(payload), profile |-> payload.profile]

(* ------------------------- CA signer responses ------------------------ *)
JStr(s) == <<"str", s>>
JNum(digits) == <<"num", digits>>
JObj == <<"obj">>

CAResponse(up, code, json, dict, success, result, cert, key, serial) ==
    [ transport_ok |-> up, status_code |-> code, json_ok |-> json,
      is_dict |-> dict, success |-> success, result |-> result,
      certificate |-> cert, private_key |-> key, serial_number |-> serial ]

Unreachable == CAResponse(FALSE, 0, FALSE, FALSE, FALSE, "missing", None, None, None)
Http500 == CAResponse(TRUE, 500, TRUE, TRUE, FALSE, "missing", None, None, None)
NotJson == CAResponse(TRUE, 200, FALSE, FALSE, FALSE, "missing", None, None, None)
JsonList == CAResponse(TRUE, 200, TRUE, FALSE, FALSE, "missing", None, None, None)
SuccessFalse == CAResponse(TRUE, 200, TRUE, TRUE, FALSE, "missing", None, None, None)
ResultMissing == CAResponse(TRUE, 200, TRUE, TRUE, TRUE, "missing", None, None, None)
ResultNull == CAResponse(TRUE, 200, TRUE, TRUE, TRUE, "null", None, None, None)
NoCertificate == CAResponse(TRUE, 200, TRUE, TRUE, TRUE, "dict", None, JStr("KEY"), None)
EmptyKey == CAResponse(TRUE, 200, TRUE, TRUE, TRUE, "dict", JStr("CERT"), JStr(""), None)
Signed == CAResponse(TRUE, 200, TRUE, TRUE, TRUE, "dict", JStr("CERT"), JStr("KEY"), None)
NumericSerial == CAResponse(TRUE, 200, TRUE, TRUE, TRUE, "dict", JStr("CERT"), JStr("KEY"), JNum("7"))
ObjectKey == CAResponse(TRUE, 200, TRUE, TRUE, TRUE, "dict", JStr("CERT"), JObj, None)

CAResponses ==
    { Unreachable, Http500, NotJson, JsonList, SuccessFalse, ResultMissing,
      ResultNull, NoCertificate, EmptyKey, Signed, NumericSerial, ObjectKey }

(* Python truthiness of a JSON value: `not v` is ~Truthy(v) *)
Truthy(v) ==
    /\ v # None
    /\ v[1] = "str" => v[2] # ""
    /\ v[1] = "num" => v[2] # "0"

(* sqlite3 binds None, int, float and str; a list or dict raises *)
Bindable(v) == v = None \/ v[1] \in {"str", "num"}

(* what a TEXT column holds after the bind (TEXT affinity) *)
SqlText(v) == v[2]
SqlNullableText(v) == IF v = None THEN None ELSE Some(v[2])

(* a `str` field of the response model: a number is accepted only by a
   build whose pydantic coerces numbers to str *)
StrFieldOk(v) == v[1] = "str" \/ (v[1] = "num" /\ ~strictStr)
OptionalStrFieldOk(v) == v = None \/ StrFieldOk(v)

(* ------------------------------ database ------------------------------ *)
Max(a, b) == IF a >= b THEN a ELSE b

RECURSIVE MaxId(_)
MaxId(rows) ==
    IF rows = {} THEN 0
    ELSE LET r == CHOOSE x \in rows : TRUE
         IN  Max(r.id, MaxId(rows \ {r}))

(* mutant: the id is the largest one in use, not the one after it *)
NextRowId_reuse == Max(sqlite_sequence, MaxId(certificates))

(* INTEGER PRIMARY KEY AUTOINCREMENT *)
NextRowId == Max(sqlite_sequence, MaxId(certificates)) + 1

LegacyRow ==
    [ id |-> 1, cn |-> "old.com", sans |-> JsonDumps(<<"old.com">>),
      serial_number |-> None, profile |-> None,
      issued_at |-> Isoformat(StartOrdinal - 400),
      expires_at |-> Isoformat(StartOrdinal - 35),
      validity_days |-> None, status |-> "valid",
      certificate_pem |-> "CERT", private_key_pem |-> "",
      created_at |-> Isoformat(StartOrdinal - 400) ]

(* the database file found at start: absent, or a table written before the
   validity_days column existed *)
InitialDatabases ==
    { [tableExists |-> FALSE, hasValidityDays |-> FALSE, rows |-> {}, seq |-> 0],
      [tableExists |-> TRUE, hasValidityDays |-> FALSE, rows |-> {LegacyRow}, seq |-> 1] }

(* mutant: the table is created afresh at every start *)
init_db_recreate(rows) == {}

(* init_db: CREATE TABLE IF NOT EXISTS, then ALTER TABLE ADD COLUMN with the
   duplicate-column error ignored; returns the rows after it *)
init_db(rows) == rows

(* the row create_cert inserts *)
NewRow(id, l, certificate_pem, private_key_pem, serial_number) ==
    [ id |-> id, cn |-> l.payload.cn, sans |-> JsonDumps(Hosts(l.payload)),
      serial_number |-> SqlNullableText(serial_number),
      profile |-> l.payload.profile,
      issued_at |-> Isoformat(l.issued_at),
      expires_at |-> Isoformat(l.expires_at),
      validity_days |-> Some(l.validity_days), status |-> "valid",
      certificate_pem |-> SqlText(certificate_pem),
      private_key_pem |-> SqlText(private_key_pem),
      created_at |-> Isoformat(l.issued_at) ]

(* ------------------------------ list_certs ---------------------------- *)
RECURSIVE OrderByIdDesc(_)
OrderByIdDesc(rows) ==
    IF rows = {} THEN <<>>
    ELSE LET r == CHOOSE x \in rows : \A y \in rows : y.id <= x.id
         IN  <<r>> \o OrderByIdDesc(rows \ {r})

(* mutant: the CASE branches are swapped *)
HasPrivateKey_swapped(row) == row.private_key_pem = ""

(* CASE WHEN private_key_pem IS NULL OR private_key_pem = '' THEN 0 ELSE 1 *)
HasPrivateKey(row) == row.private_key_pem # ""

CertOut(row) ==
    [ id |-> row.id, cn |-> row.cn, sans |-> JsonLoads(row.sans),
      serial_number |-> row.serial_number, profile |-> row.profile,
      issued_at |-> FromIsoformat(row.issued_at),
      expires_at |-> FromIsoformat(row.expires_at),
      status |-> row.status, certificate_pem |-> row.certificate_pem,
      has_private_key |-> HasPrivateKey(row),
      validity_days |-> row.validity_days ]

RECURSIVE OrderByIdAsc(_)
OrderByIdAsc(rows) ==
    IF rows = {} THEN <<>>
    ELSE LET r == CHOOSE x \in rows : \A y \in rows : y.id >= x.id
         IN  <<r>> \o OrderByIdAsc(rows \ {r})

(* mutant: ORDER BY id ASC *)
list_certs_ascending ==
    LET rows == OrderByIdAsc(certificates)
    IN  [i \in 1..Len(rows) |-> CertOut(rows[i])]

list_certs ==
    LET rows == OrderByIdDesc(certificates)
    IN  [i \in 1..Len(rows) |-> CertOut(rows[i])]

(* ------------------------------ create_cert --------------------------- *)
NoLocal == [payload |-> None, issued_at |-> 0, validity_days |-> 0, expires_at |-> 0]

(* the last operation and what it answered; ca is the request sent to the CA
   (op "ca_call") or the CA's answer (op "create" after the call) *)
Event(op, w, status_code, detail, payload, ca, id, body) ==
    [ op |-> op, w |-> w, status_code |-> status_code, detail |-> detail,
      payload |-> payload, ca |-> ca, id |-> id, body |-> body ]

NoEvent == Event("none", 0, 0, "", None, None, None, None)

(* request validation and lines 188-190: what the handler holds when it is
   about to call the CA, or the error it answers with *)
create_cert_request(payload, issued_at) ==
    IF ~CertCreate(payload)
    THEN [ok |-> FALSE, status_code |-> 422, detail |-> "validation", local |-> NoLocal]
    ELSE LET r == resolve_validity_days(payload)
         IN  IF ~r.ok
             THEN [ok |-> FALSE, status_code |-> r.status_code, detail |-> r.detail,
                   local |-> NoLocal]
             ELSE IF Overflows(issued_at, r.days)
             THEN [ok |-> FALSE, status_code |-> 500, detail |-> "unhandled",
                   local |-> NoLocal]
             ELSE [ok |-> TRUE, status_code |-> 200, detail |-> "ok",
                   local |-> [payload |-> payload, issued_at |-> issued_at,
                              validity_days |-> r.days,
                              expires_at |-> issued_at + r.days]]

Failure(status_code, detail) ==
    [status_code |-> status_code, detail |-> detail, row |-> None, body |-> None]

CertCreateResponse(id, l, certificate_pem, private_key_pem, serial_number) ==
    [ id |-> id, cn |-> l.payload.cn, sans |-> Hosts(l.payload),
      serial_number |-> SqlNullableText(serial_number),
      profile |-> l.payload.profile, issued_at |-> l.issued_at,
      expires_at |-> l.expires_at, status |-> "valid",
      certificate_pem |-> certificate_pem[2], has_private_key |-> TRUE,
      validity_days |-> Some(l.validity_days),
      private_key_pem |-> private_key_pem[2] ]

(* lines 222-289: the handler from the CA's answer to its own *)
create_cert_response(l, resp) ==
    IF ~resp.transport_ok THEN Failure(502, "unreachable")
    ELSE IF resp.status_code # 200 THEN Failure(502, "rejected")
    ELSE IF ~resp.json_ok THEN Failure(500, "unhandled")
    ELSE IF ~resp.is_dict THEN Failure(500, "unhandled")
    ELSE IF ~resp.success THEN Failure(502, "signing_failed")
    ELSE IF resp.result = "null" THEN Failure(500, "unhandled")
    ELSE
      LET certificate_pem == IF resp.result = "dict" THEN resp.certificate ELSE None
          private_key_pem == IF resp.result = "dict" THEN resp.private_key ELSE None
          serial_number   == IF resp.result = "dict" THEN resp.serial_number ELSE None
          cert_id == NextRowId
      IN  IF ~Truthy(certificate_pem) \/ ~Truthy(private_key_pem)
          THEN Failure(500, "malformed")
          ELSE IF ~(Bindable(certificate_pem) /\ Bindable(private_key_pem)
                    /\ Bindable(serial_number))
          THEN Failure(500, "unhandled")
          ELSE
            LET row == NewRow(cert_id, l, certificate_pem, private_key_pem,
                              serial_number)
            IN  IF StrFieldOk(certificate_pem) /\ StrFieldOk(private_key_pem)
                   /\ OptionalStrFieldOk(serial_number)
                THEN [ status_code |-> 200, detail |-> "ok", row |-> Some(row),
                       body |-> Some(CertCreateResponse(cert_id, l, certificate_pem,
                                                        private_key_pem, serial_number)) ]
                ELSE [ status_code |-> 500, detail |-> "unhandled",
                       row |-> Some(row), body |-> None ]

(* ------------------------------ downloads ----------------------------- *)
_get_certificate_row(cert_id) == { r \in certificates : r.id = cert_id }

IsCertificatePem(s) == s = "CERT"
IsPrivateKeyPem(s) == s = "KEY"

download_pem(cert_id) ==
    LET found == _get_certificate_row(cert_id)
    IN  IF found = {} THEN Failure(404, "not_found")
        ELSE LET row == CHOOSE r \in found : TRUE
             IN  [ status_code |-> 200, detail |-> "ok", row |-> None,
                   body |-> Some(<<row.certificate_pem, "\n",
                                   row.private_key_pem, "\n">>) ]

download_p12(cert_id, password) ==
    LET found == _get_certificate_row(cert_id)
    IN  IF found = {} THEN Failure(404, "not_found")
        ELSE LET row == CHOOSE r \in found : TRUE
             IN  IF row.private_key_pem = ""
                 THEN Failure(404, "no_private_key")
                 ELSE IF ~IsCertificatePem(row.certificate_pem)
                         \/ ~IsPrivateKeyPem(row.private_key_pem)
                 THEN Failure(500, "unhandled")
                 ELSE [ status_code |-> 200, detail |-> "ok", row |-> None,
                        body |-> Some([ name |-> row.cn,
                                        key |-> row.private_key_pem,
                                        cert |-> row.certificate_pem,
                                        encrypted |-> (password # None /\ password # Some("")) ]) ]

(* ------------------------------ actions ------------------------------- *)
Init ==
    /\ started = FALSE
    /\ \E db \in InitialDatabases :
          /\ tableExists = db.tableExists
          /\ hasValidityDays = db.hasValidityDays
          /\ certificates = db.rows
          /\ sqlite_sequence = db.seq
    /\ insertedAt = <<>>
    /\ now = StartOrdinal
    /\ strictStr \in BOOLEAN
    /\ pc = [w \in Workers |-> "idle"]
    /\ local = [w \in Workers |-> NoLocal]
    /\ event = NoEvent

(* @app.on_event("startup"): init_db() *)
startup_event ==
    /\ ~started
    /\ started' = TRUE
    /\ tableExists' = TRUE
    /\ hasValidityDays' = TRUE
    /\ certificates' = init_db(certificates)
    /\ event' = Event("startup", 0, 0, "", None, None, None, None)
    /\ UNCHANGED <<sqlite_sequence, insertedAt, now, strictStr, pc, local>>

(* the server process stops (uvicorn reload) once no request is in flight *)
Shutdown ==
    /\ started
    /\ \A w \in Workers : pc[w] = "idle"
    /\ started' = FALSE
    /\ event' = Event("shutdown", 0, 0, "", None, None, None, None)
    /\ UNCHANGED <<tableExists, hasValidityDays, certificates, sqlite_sequence,
                   insertedAt, now, strictStr, pc, local>>

(* the wall clock read by datetime.utcnow() advances *)
Tick ==
    /\ now < StartOrdinal + MaxTicks
    /\ now' = now + 1
    /\ event' = Event("tick", 0, 0, "", None, None, None, None)
    /\ UNCHANGED <<started, tableExists, hasValidityDays, certificates,
                   sqlite_sequence, insertedAt, strictStr, pc, local>>

InFlight == { w \in Workers : pc[w] = "ca" }

(* fewer than n rows inserted or about to be, so that the runs are finite *)
Budget(n) == Cardinality(DOMAIN insertedAt) + Cardinality(InFlight) < n

(* POST /certs up to the moment the request to the CA is on the wire *)
CreateBegin(w, payload) ==
    /\ started
    /\ pc[w] = "idle"
    /\ LET r == create_cert_request(payload, now)
       IN  IF r.ok
           THEN /\ pc' = [pc EXCEPT ![w] = "ca"]
                /\ local' = [local EXCEPT ![w] = r.local]
                /\ event' = Event("ca_call", w, 0, "", Some(payload),
                                  Some(cfssl_request(payload)), None, None)
           ELSE /\ event' = Event("create", w, r.status_code, r.detail,
                                  Some(payload), None, None, None)
                /\ UNCHANGED <<pc, local>>
    /\ UNCHANGED <<started, tableExists, hasValidityDays, certificates,
                   sqlite_sequence, insertedAt, now, strictStr>>

(* POST /certs from the CA's answer (or the transport error) to the reply *)
CreateFinish(w, resp) ==
    /\ started
    /\ pc[w] = "ca"
    /\ LET r == create_cert_response(local[w], resp)
       IN  /\ IF r.row # None
              THEN /\ certificates' = certificates \cup {r.row[1]}
                   /\ sqlite_sequence' = r.row[1].id
                   /\ insertedAt' = (r.row[1].id :> now) @@ insertedAt
              ELSE UNCHANGED <<certificates, sqlite_sequence, insertedAt>>
           /\ event' = Event("create", w, r.status_code, r.detail,
                             None, Some(resp),
                             IF r.row # None THEN Some(r.row[1].id) ELSE None,
                             r.body)
    /\ pc' = [pc EXCEPT ![w] = "idle"]
    /\ local' = [local EXCEPT ![w] = NoLocal]
    /\ UNCHANGED <<started, tableExists, hasValidityDays, now, strictStr>>

(* GET /certs *)
ListCerts ==
    /\ started
    /\ event' = Event("list", 0, 200, "ok", None, None, None, Some(list_certs))
    /\ UNCHANGED <<started, tableExists, hasValidityDays, certificates,
                   sqlite_sequence, insertedAt, now, strictStr, pc, local>>

CertIds == 1..MaxCertId

(* GET /certs/{cert_id}/download.pem *)
DownloadPem(cert_id) ==
    /\ started
    /\ LET r == download_pem(cert_id)
       IN  event' = Event("download_pem", 0, r.status_code, r.detail, None,
                          None, Some(cert_id), r.body)
    /\ UNCHANGED <<started, tableExists, hasValidityDays, certificates,
                   sqlite_sequence, insertedAt, now, strictStr, pc, local>>

(* GET /certs/{cert_id}/download.p12 *)
DownloadP12(cert_id, password) ==
    /\ started
    /\ LET r == download_p12(cert_id, password)
       IN  event' = Event("download_p12", 0, r.status_code, r.detail, None,
                          None, Some(cert_id), r.body)
    /\ UNCHANGED <<started, tableExists, hasValidityDays, certificates,
                   sqlite_sequence, insertedAt, now, strictStr, pc, local>>

ReadOnly ==
    \/ ListCerts
    \/ \E cert_id \in CertIds : DownloadPem(cert_id)
    \/ \E cert_id \in CertIds, password \in Passwords : DownloadP12(cert_id, password)

Lifecycle ==
    \/ startup_event
    \/ Shutdown
    \/ Tick

(* one request at a time, every request body and every CA answer *)
Next ==
    \/ Lifecycle
    \/ ReadOnly
    \/ \E payload \in Payloads : Budget(MaxCreated) /\ CreateBegin(1, payload)
    \/ \E resp \in CAResponses : CreateFinish(1, resp)

Spec == Init /\ [][Next]_vars

(* overlapping requests *)
ConcurrentResponses == { Signed, Unreachable }

NextConcurrent ==
    \/ Lifecycle
    \/ ReadOnly
    \/ \E w \in Workers, payload \in ConcurrentPayloads :
          Budget(MaxConcurrentCreated) /\ CreateBegin(w, payload)
    \/ \E w \in Workers, resp \in ConcurrentResponses : CreateFinish(w, resp)

SpecConcurrent == Init /\ [][NextConcurrent]_vars

(* ============================== claims ================================ *)
Created == DOMAIN insertedAt

RowOf(id) == CHOOSE r \in certificates : r.id = id

(* C1: a POST /certs that answers 200 adds exactly one row to the table,
   and one that answers anything else adds none. *)
C1_RowCountFollowsOutcome ==
    [][ event'.op = "create" =>
          IF event'.status_code = 200
          THEN Cardinality(certificates') = Cardinality(certificates) + 1
          ELSE Cardinality(certificates') = Cardinality(certificates) ]_vars

(* the validity input of the request, as C2 words it *)
NoPositiveDays(payload) ==
    payload.validity_days = None \/ payload.validity_days[1] <= 0

Recognized == DOMAIN VALIDITY_OPTIONS_DAYS \cup {CustomOption}

InvalidValidityAsClaimed(payload) ==
    \/ Lower(payload.validity_option) \notin Recognized
    \/ Lower(payload.validity_option) = CustomOption /\ NoPositiveDays(payload)

InvalidValidity(payload) ==
    \/ /\ payload.validity_option # <<>>
       /\ Lower(payload.validity_option) \notin Recognized
    \/ Lower(payload.validity_option) = CustomOption /\ NoPositiveDays(payload)

RequestStep(e) == e.op \in {"create", "ca_call"} /\ e.payload # None

RejectedBeforeCA(e) ==
    /\ e.op = "create"
    /\ e.status_code \in {400, 422}
    /\ pc' = pc

(* C2 as stated: a request whose validity_option is not one of
   1y/3y/5y/10y/custom (in any letter case), or is custom without a positive
   day-count, is answered with a 4xx and no call to the CA is made for it. *)
C2_InvalidValidityNeverCallsCA_AsClaimed ==
    [][ (RequestStep(event') /\ InvalidValidityAsClaimed(event'.payload[1]))
          => RejectedBeforeCA(event') ]_vars

(* C2 amended: the same for a non-empty validity_option; an empty one is
   read as 1y. *)
C2_InvalidValidityNeverCallsCA ==
    [][ (RequestStep(event') /\ InvalidValidity(event'.payload[1]))
          => RejectedBeforeCA(event') ]_vars

C2_Witness ==
    /\ event.op = "create"
    /\ event.payload = Some(Payload(<<"2", "y">>, None))
    /\ event.status_code = 400
    /\ \A w \in Workers : pc[w] = "idle"

(* C3: no summary of GET /certs carries private key material, and the
   summary of every record created through POST /certs has has_private_key
   true. *)
SummaryHidesKey(summary, key) ==
    /\ "private_key_pem" \notin DOMAIN summary
    /\ key # "" =>
         /\ summary.cn # key
         /\ summary.status # key
         /\ summary.certificate_pem # key
         /\ summary.serial_number # Some(key)
         /\ summary.profile # Some(key)
         /\ \A i \in DOMAIN summary.sans : summary.sans[i] # key

C3_ListHidesKeyAndFlagsIt ==
    event.op = "list" =>
        \A i \in DOMAIN event.body[1] :
            LET summary == event.body[1][i]
            IN  /\ SummaryHidesKey(summary, RowOf(summary.id).private_key_pem)
                /\ summary.id \in Created => summary.has_private_key = TRUE

C3_Witness ==
    /\ event.op = "list"
    /\ \E i \in DOMAIN event.body[1] :
          /\ event.body[1][i].id \in Created
          /\ event.body[1][i].serial_number = Some("7")

(* C4: a request whose option is 1y, 3y, 5y or 10y (any letter case) is not
   rejected and resolves to 365, 1095, 1825 or 3650 days, whatever day-count
   comes with it. *)
C4_PresetIgnoresCustomDays ==
    (RequestStep(event)
       /\ Lower(event.payload[1].validity_option) \in DOMAIN VALIDITY_OPTIONS_DAYS)
    => /\ event.op = "ca_call"
       /\ local[event.w].validity_days =
             VALIDITY_OPTIONS_DAYS[Lower(event.payload[1].validity_option)]

IsCustom(payload) == payload.validity_option = CustomOption

(* C5: with validity_option "custom", a request without a positive
   day-count is answered 400; one with n > 0 reaches the CA with n days
   resolved and, when the CA signs, answers 200 with a stored and returned
   record whose validity_days is n and whose expires_at is issued_at + n. *)
C5_CustomDays ==
    [][ /\ (RequestStep(event') /\ IsCustom(event'.payload[1])) =>
            IF NoPositiveDays(event'.payload[1])
            THEN event'.op = "create" /\ event'.status_code = 400
            ELSE /\ event'.op = "ca_call"
                 /\ local'[event'.w].validity_days = event'.payload[1].validity_days[1]
        /\ (event'.op = "create" /\ event'.ca = Some(Signed)
              /\ IsCustom(local[event'.w].payload)) =>
            LET n == local[event'.w].payload.validity_days[1]
            IN  /\ event'.status_code = 200
                /\ event'.body[1].validity_days = Some(n)
                /\ event'.body[1].expires_at = event'.body[1].issued_at + n
                /\ \E r \in certificates' :
                      /\ r.id = event'.body[1].id
                      /\ r.validity_days = Some(n)
                      /\ FromIsoformat(r.expires_at) = FromIsoformat(r.issued_at) + n
      ]_vars

(* C6: after the CA call, POST /certs answers 502 for a transport failure,
   a non-200 status or a false success flag, the malformed-response 500 for
   a reported success without certificate or key, and nothing but 200, 502
   or that 500 for any CA answer. *)
LacksCertificateOrKey(resp) ==
    \/ resp.result # "dict"
    \/ ~Truthy(resp.certificate)
    \/ ~Truthy(resp.private_key)

C6_CAFailuresReported ==
    (event.op = "create" /\ event.ca # None) =>
        LET resp == event.ca[1]
            reportsSuccess == /\ resp.transport_ok /\ resp.status_code = 200
                              /\ resp.json_ok /\ resp.is_dict /\ resp.success
        IN  /\ ~resp.transport_ok => event.status_code = 502
            /\ (resp.transport_ok /\ resp.status_code # 200) => event.status_code = 502
            /\ (resp.transport_ok /\ resp.status_code = 200 /\ resp.json_ok
                  /\ resp.is_dict /\ ~resp.success) => event.status_code = 502
            /\ (reportsSuccess /\ LacksCertificateOrKey(resp)) =>
                  (event.status_code = 500 /\ event.detail = "malformed")
            /\ \/ event.status_code = 200
               \/ event.status_code = 502
               \/ event.status_code = 500 /\ event.detail = "malformed"

(* C7: for a stored record whose private key is empty, download.pem and
   download.p12 both fail with 404/422 and return no bundle. *)
C7_NoKeyNoBundle ==
    (/\ event.op \in {"download_pem", "download_p12"}
     /\ \E r \in certificates : r.id = event.id[1] /\ r.private_key_pem = "")
    => (event.status_code \in {404, 422} /\ event.body = None)

(* C8: no step changes or removes a stored row, and a row inserted by
   POST /certs has status "valid". *)
C8_RowsNeverChange ==
    [][ /\ \A r \in certificates : r \in certificates'
        /\ \A r \in certificates' \ certificates : r.status = "valid" ]_vars

C8_Witness ==
    /\ event.op = "startup"
    /\ Created # {}
    /\ \A id \in Created : \E r \in certificates : r.id = id /\ r.status = "valid"

(* C9: ids are unique; each insert gets an id above every id assigned
   before it; the id in the 200 answer is the id of the row just inserted;
   GET /certs returns every row once, by strictly descending id. *)
StrictlyDescendingIds(list) ==
    \A i, j \in DOMAIN list : i < j => list[i].id > list[j].id

C9_IdsAndListOrder ==
    [][ /\ \A r1, r2 \in certificates' : r1.id = r2.id => r1 = r2
        /\ \A r \in certificates' \ certificates :
              /\ r.id > sqlite_sequence
              /\ \A q \in certificates : r.id > q.id
              /\ event'.op = "create" /\ event'.id = Some(r.id)
              /\ event'.status_code = 200 => event'.body[1].id = r.id
        /\ event'.op = "list" =>
              /\ StrictlyDescendingIds(event'.body[1])
              /\ Len(event'.body[1]) = Cardinality(certificates')
              /\ { event'.body[1][i].id : i \in DOMAIN event'.body[1] }
                    = { r.id : r \in certificates' } ]_vars

C9_Witness ==
    /\ event.op = "list"
    /\ Len(event.body[1]) >= 2
    /\ \E w \in Workers : pc[w] = "ca"

(* the summaries of the records created through POST /certs, in list order *)
CreatedSummaries(list) == SelectSeq(list, LAMBDA summary : summary.id \in Created)

(* C10 as stated: in the output of GET /certs no summary appears before a
   summary with a later issued_at. *)
C10_NewestFirstByIssuedAt ==
    event.op = "list" =>
        LET list == CreatedSummaries(event.body[1])
        IN  \A i, j \in DOMAIN list : i < j => list[j].issued_at <= list[i].issued_at

(* C10 amended: no summary appears before a summary whose row was inserted
   later, and a summary appears before one with a later issued_at only when
   the two requests overlapped (the first-listed one began earlier and
   inserted no earlier than the other began). *)
C10_NewestFirstByInsertion ==
    event.op = "list" =>
        LET list == CreatedSummaries(event.body[1])
        IN  \A i, j \in DOMAIN list : i < j =>
              /\ insertedAt[list[j].id] <= insertedAt[list[i].id]
              /\ list[j].issued_at > list[i].issued_at =>
                    list[j].issued_at <= insertedAt[list[i].id]

C10_Witness ==
    /\ event.op = "list"
    /\ LET list == CreatedSummaries(event.body[1])
       IN  /\ Len(list) = 2
           /\ insertedAt[list[1].id] > insertedAt[list[2].id]
           /\ list[1].issued_at > list[2].issued_at

====
